---- MODULE Spec2Model ----
(***************************************************************************)
(* A model of common/archive/prelude.go: the Prelude of a mongodump        *)
(* archive (magic number, header, per-namespace metadata, terminator), its *)
(* virtual directory view (PreludeExplorer) and the read-side metadata     *)
(* accessor (MetadataPreludeFile).                                         *)
(*                                                                         *)
(* Strings are sequences of byte values, so that the length-prefixed wire  *)
(* encoding is computed and not assumed.  A nil pointer / nil buffer is    *)
(* the empty sequence <<>> and a set one is the one-element sequence <<v>>.*)
(***************************************************************************)
EXTENDS Integers, Sequences, FiniteSets, TLC

VARIABLES
    prelude,    \* the Prelude object the operations act on
    mpf,        \* the MetadataPreludeFile bound to that Prelude
    ret         \* the last call: its name, its arguments and what it returned

vars == <<prelude, mpf, ret>>

----------------------------------------------------------------------------
(* Bounds and input alphabets *)

MaxRecs == 2        \* records a Prelude may hold before AddMetadata is cut off
MaxIntents == 2     \* intents handed to NewPrelude
MaxProcs == 2       \* largest concurrency hint handed to NewPrelude

DBNames == {<<>>, <<97>>, <<98>>}           \* "", "a", "b"
CollNames == {<<>>, <<99>>, <<100>>}        \* "", "c", "d"

----------------------------------------------------------------------------
(* Data model *)

\* type CollectionMetadata struct { Database, Collection, Metadata string; Size int }
CollectionMetadata(db, c, md, sz) ==
    [Database |-> db, Collection |-> c, Metadata |-> md, Size |-> sz]

\* The records handed to AddMetadata: a top-level (no database) namespace, two
\* records of one namespace that differ in metadata and size, a second
\* collection, a database-level placeholder, and a second database.
CMs ==
    { CollectionMetadata(<<>>, <<99>>, <<>>, 7),
      CollectionMetadata(<<>>, <<100>>, <<123, 125>>, 0),
      CollectionMetadata(<<97>>, <<99>>, <<123, 125>>, 7),
      CollectionMetadata(<<97>>, <<99>>, <<>>, 3),
      CollectionMetadata(<<97>>, <<100>>, <<>>, 0),
      CollectionMetadata(<<97>>, <<>>, <<>>, 7),
      CollectionMetadata(<<98>>, <<99>>, <<>>, 0),
      CollectionMetadata(<<98>>, <<100>>, <<123, 125>>, 7) }

\* A Go map[string][]*CollectionMetadata: nil, or a finite function.
EmptyKV == [k \in {} |-> <<>>]
NilMap == [isNil |-> TRUE, kv |-> EmptyKV]
MakeMap == [isNil |-> FALSE, kv |-> EmptyKV]
MapHas(m, k) == k \in DOMAIN m.kv
MapGet(m, k) == IF MapHas(m, k) THEN m.kv[k] ELSE <<>>
MapPut(m, k, v) ==
    [isNil |-> FALSE,
     kv |-> [x \in (DOMAIN m.kv) \cup {k} |-> IF x = k THEN v ELSE m.kv[x]]]

\* The zero value Prelude{}: nil Header, nil slices, nil map.
ZeroPrelude ==
    [Header |-> <<>>, DBS |-> <<>>, NamespaceMetadatas |-> <<>>,
     NamespaceMetadatasByDB |-> NilMap]

----------------------------------------------------------------------------
(* Prelude.AddMetadata *)

\* AddMetadata without the "is the database new" test of line 116.
AddMetadataAlwaysNewDB(p, cm) ==
    LET byDB == IF p.NamespaceMetadatasByDB.isNil
                THEN MakeMap ELSE p.NamespaceMetadatasByDB
    IN  [p EXCEPT
            !.NamespaceMetadatas = Append(p.NamespaceMetadatas, cm),
            !.DBS = Append(p.DBS, cm.Database),
            !.NamespaceMetadatasByDB =
                MapPut(byDB, cm.Database, Append(MapGet(byDB, cm.Database), cm))]

AddMetadata(p, cm) ==
    LET byDB == IF p.NamespaceMetadatasByDB.isNil
                THEN MakeMap ELSE p.NamespaceMetadatasByDB
        ok == MapHas(byDB, cm.Database)
    IN  [p EXCEPT
            !.NamespaceMetadatas = Append(p.NamespaceMetadatas, cm),
            !.DBS = IF ~ok THEN Append(p.DBS, cm.Database) ELSE p.DBS,
            !.NamespaceMetadatasByDB =
                MapPut(byDB, cm.Database, Append(MapGet(byDB, cm.Database), cm))]

----------------------------------------------------------------------------
(* NewPrelude *)

\* archiveFormatVersion, the version string of the archive package: "0.1"
archiveFormatVersion == <<48, 46, 49>>

\* An intent's MetadataFile: nil, an *archive.Metadata holding a buffer, or a
\* file of some other type.
NoFile == <<>>
ArchiveMetadata(md) == <<[kind |-> "Metadata", Buffer |-> md]>>
OtherFile == <<[kind |-> "other"]>>

Intent(db, c, f) == [DB |-> db, C |-> c, MetadataFile |-> f]

\* The intents an intent manager hands to NewPrelude.
Intents ==
    { Intent(<<>>, <<99>>, NoFile),
      Intent(<<97>>, <<99>>, ArchiveMetadata(<<123, 125>>)),
      Intent(<<97>>, <<100>>, ArchiveMetadata(<<>>)),
      Intent(<<98>>, <<100>>, OtherFile) }

RECURSIVE NewPreludeLoop(_, _)
NewPreludeLoop(p, allIntents) ==
    IF allIntents = <<>> THEN [prelude |-> <<p>>, err |-> "nil"]
    ELSE LET intent == Head(allIntents) IN
         IF intent.MetadataFile /= <<>>
         THEN IF intent.MetadataFile[1].kind /= "Metadata"
              THEN [prelude |-> <<>>, err |-> "MetadataFile is not an archive.Metadata"]
              ELSE NewPreludeLoop(
                     AddMetadata(p, CollectionMetadata(intent.DB, intent.C,
                                        intent.MetadataFile[1].Buffer, 0)),
                     Tail(allIntents))
         ELSE NewPreludeLoop(
                AddMetadata(p, CollectionMetadata(intent.DB, intent.C, <<>>, 0)),
                Tail(allIntents))

NewPrelude(allIntents, maxProcs) ==
    NewPreludeLoop(
        [Header |-> <<[ArchiveFormatVersion |-> archiveFormatVersion,
                       ConcurrentCollections |-> maxProcs]>>,
         DBS |-> <<>>, NamespaceMetadatas |-> <<>>,
         NamespaceMetadatasByDB |-> MakeMap],
        allIntents)

----------------------------------------------------------------------------
(* PreludeExplorer *)

PreludeExplorer(db, c, isMd) == [database |-> db, collection |-> c, isMetadata |-> isMd]

NewPreludeExplorer == PreludeExplorer(<<>>, <<>>, FALSE)

Explorers == {PreludeExplorer(db, c, isMd) :
                db \in DBNames, c \in CollNames, isMd \in BOOLEAN}

IsDir(pe) == pe.collection = <<>>

\* The lookup of Size returning the last match instead of the first.
RECURSIVE SizeLoopLastMatch(_, _)
SizeLoopLastMatch(nss, pe) ==
    IF nss = <<>> THEN 0
    ELSE LET last == nss[Len(nss)] IN
         IF last.Database = pe.database /\ last.Collection = pe.collection
         THEN last.Size
         ELSE SizeLoopLastMatch(SubSeq(nss, 1, Len(nss) - 1), pe)

RECURSIVE SizeLoop(_, _)
SizeLoop(nss, pe) ==
    IF nss = <<>> THEN 0
    ELSE IF Head(nss).Database = pe.database /\ Head(nss).Collection = pe.collection
         THEN Head(nss).Size
         ELSE SizeLoop(Tail(nss), pe)

Size(p, pe) ==
    IF IsDir(pe) THEN 0 ELSE SizeLoop(p.NamespaceMetadatas, pe)

\* The loop body of ReadDir: a data entry per record, and a metadata entry
\* after it when the record's metadata text is not empty.
RECURSIVE ReadDirLoop(_, _)
ReadDirLoop(nss, db) ==
    IF nss = <<>> THEN <<>>
    ELSE <<PreludeExplorer(db, Head(nss).Collection, FALSE)>>
         \o (IF Head(nss).Metadata /= <<>>
             THEN <<PreludeExplorer(db, Head(nss).Collection, TRUE)>>
             ELSE <<>>)
         \o ReadDirLoop(Tail(nss), db)

\* ReadDir listing the database directories before the top-level namespaces.
ReadDirDirsFirst(p, pe) ==
    IF ~IsDir(pe) THEN [entries |-> <<>>, err |-> "not a directory"]
    ELSE IF pe.database = <<>>
    THEN [entries |->
            [i \in 1..Len(p.DBS) |-> PreludeExplorer(p.DBS[i], <<>>, FALSE)]
            \o (IF MapHas(p.NamespaceMetadatasByDB, <<>>)
                THEN ReadDirLoop(p.NamespaceMetadatasByDB.kv[<<>>], <<>>)
                ELSE <<>>),
          err |-> "nil"]
    ELSE IF ~MapHas(p.NamespaceMetadatasByDB, pe.database)
    THEN [entries |-> <<>>, err |-> "no such directory"]
    ELSE [entries |-> ReadDirLoop(p.NamespaceMetadatasByDB.kv[pe.database], pe.database),
          err |-> "nil"]

ReadDir(p, pe) ==
    IF ~IsDir(pe) THEN [entries |-> <<>>, err |-> "not a directory"]
    ELSE IF pe.database = <<>>
    THEN [entries |->
            (IF MapHas(p.NamespaceMetadatasByDB, <<>>)
             THEN ReadDirLoop(p.NamespaceMetadatasByDB.kv[<<>>], <<>>)
             ELSE <<>>)
            \o [i \in 1..Len(p.DBS) |-> PreludeExplorer(p.DBS[i], <<>>, FALSE)],
          err |-> "nil"]
    ELSE IF ~MapHas(p.NamespaceMetadatasByDB, pe.database)
    THEN [entries |-> <<>>, err |-> "no such directory"]
    ELSE [entries |-> ReadDirLoop(p.NamespaceMetadatasByDB.kv[pe.database], pe.database),
          err |-> "nil"]

----------------------------------------------------------------------------
(* The wire format.  The magic number is four bytes; after it every 32-bit  *)
(* little-endian word and every byte of a document is one unit of the       *)
(* stream, so a document is: its length in units, its elements, a 0.        *)

\* MagicNumber, the archive package's int32 constant, here 0x6de29981
MagicNumber == 1843566977

\* byte(uint32(MagicNumber) >> uint(i*8))
MagicByte(i) == (MagicNumber \div (256 ^ i)) % 256

magicNumberBytes == [i \in 1..4 |-> MagicByte(i - 1)]

\* int32(uint32(buf[0])<<0 | uint32(buf[1])<<8 | uint32(buf[2])<<16 | uint32(buf[3])<<24)
LittleEndianInt32(buf) ==
    buf[1] + 256 * buf[2] + 65536 * buf[3]
    + 16777216 * (IF buf[4] >= 128 THEN buf[4] - 256 ELSE buf[4])

\* terminatorBytes, 0xFFFFFFFF: the length word -1
terminatorBytes == <<-1>>

\* BSON elements: a type tag (2 string, 16 int32), the field's key, the value.
\* A string value is its length with the closing 0, its bytes, and the 0.
StringElem(key, str) == <<2, key, Len(str) + 1>> \o str \o <<0>>
IntElem(key, v) == <<16, key, v>>
Document(elems) == <<Len(elems) + 2>> \o elems \o <<0>>

\* bson.Marshal(prelude.Header); a nil *Header cannot be marshalled.
MarshalHeader(h) ==
    IF h = <<>> THEN [data |-> <<>>, err |-> "marshal"]
    ELSE [data |-> Document(StringElem(1, h[1].ArchiveFormatVersion)
                            \o IntElem(2, h[1].ConcurrentCollections)),
          err |-> "nil"]

\* bson.Marshal(cm)
MarshalCM(cm) ==
    [data |-> Document(StringElem(1, cm.Database) \o StringElem(2, cm.Collection)
                       \o StringElem(3, cm.Metadata) \o IntElem(4, cm.Size)),
     err |-> "nil"]

ZeroHeader == [ArchiveFormatVersion |-> <<>>, ConcurrentCollections |-> 0]
ZeroCM == CollectionMetadata(<<>>, <<>>, <<>>, 0)

HeaderFields ==
    (1 :> [name |-> "ArchiveFormatVersion", kind |-> 2])
    @@ (2 :> [name |-> "ConcurrentCollections", kind |-> 16])

CMFields ==
    (1 :> [name |-> "Database", kind |-> 2]) @@ (2 :> [name |-> "Collection", kind |-> 2])
    @@ (3 :> [name |-> "Metadata", kind |-> 2]) @@ (4 :> [name |-> "Size", kind |-> 16])

\* The element loop of bson.Unmarshal: fields are filled as they are decoded,
\* an element of an unknown key is skipped, a malformed one ends the decoding.
RECURSIVE UnmarshalElems(_, _, _)
UnmarshalElems(b, val, fields) ==
    IF b = <<>> THEN [val |-> val, err |-> "nil"]
    ELSE IF Len(b) < 3 THEN [val |-> val, err |-> "corrupted"]
    ELSE LET kind == b[1]
             key == b[2]
             known == key \in DOMAIN fields /\ fields[key].kind = kind
         IN  IF kind = 16
             THEN UnmarshalElems(SubSeq(b, 4, Len(b)),
                                 IF known THEN [val EXCEPT ![fields[key].name] = b[3]]
                                 ELSE val,
                                 fields)
             ELSE IF kind = 2
             THEN LET n == b[3] IN
                  IF n < 1 \/ 3 + n > Len(b) \/ b[3 + n] /= 0
                  THEN [val |-> val, err |-> "corrupted"]
                  ELSE UnmarshalElems(SubSeq(b, 4 + n, Len(b)),
                                      IF known
                                      THEN [val EXCEPT ![fields[key].name] =
                                                            SubSeq(b, 4, 2 + n)]
                                      ELSE val,
                                      fields)
             ELSE [val |-> val, err |-> "corrupted"]

\* bson.Unmarshal(data, out), out pointing at the zero value `zero`
Unmarshal(data, zero, fields) ==
    IF Len(data) < 2 \/ data[1] /= Len(data) \/ data[Len(data)] /= 0
    THEN [val |-> zero, err |-> "corrupted"]
    ELSE UnmarshalElems(SubSeq(data, 2, Len(data) - 1), zero, fields)

RECURSIVE Flatten(_)
Flatten(units) == IF units = <<>> THEN <<>> ELSE Head(units) \o Flatten(Tail(units))

----------------------------------------------------------------------------
(* Prelude.Write.  The sink fails on its failAt-th Write call (0: never).   *)
(* writes: the units the sink accepted; calls: the Write calls issued.      *)

\* Write carrying on after a failed write of a metadata document.
RECURSIVE WriteLoopNoAbort(_, _, _, _)
WriteLoopNoAbort(nss, out, calls, failAt) ==
    IF nss = <<>>
    THEN IF failAt = calls + 1
         THEN [writes |-> out, calls |-> calls + 1, err |-> "io"]
         ELSE [writes |-> Append(out, terminatorBytes), calls |-> calls + 1,
               err |-> IF failAt \in 1..calls THEN "io" ELSE "nil"]
    ELSE LET buf == MarshalCM(Head(nss)) IN
         IF buf.err /= "nil" THEN [writes |-> out, calls |-> calls, err |-> buf.err]
         ELSE IF failAt = calls + 1
         THEN WriteLoopNoAbort(Tail(nss), out, calls + 1, failAt)
         ELSE WriteLoopNoAbort(Tail(nss), Append(out, buf.data), calls + 1, failAt)

\* Write without the terminator.
RECURSIVE WriteLoopNoTerminator(_, _, _, _)
WriteLoopNoTerminator(nss, out, calls, failAt) ==
    IF nss = <<>>
    THEN [writes |-> out, calls |-> calls, err |-> "nil"]
    ELSE LET buf == MarshalCM(Head(nss)) IN
         IF buf.err /= "nil" THEN [writes |-> out, calls |-> calls, err |-> buf.err]
         ELSE IF failAt = calls + 1
         THEN [writes |-> out, calls |-> calls + 1, err |-> "io"]
         ELSE WriteLoopNoTerminator(Tail(nss), Append(out, buf.data), calls + 1, failAt)

\* Lines 140-154: the metadata documents in order, then the terminator.
RECURSIVE WriteLoop(_, _, _, _)
WriteLoop(nss, out, calls, failAt) ==
    IF nss = <<>>
    THEN IF failAt = calls + 1
         THEN [writes |-> out, calls |-> calls + 1, err |-> "io"]
         ELSE [writes |-> Append(out, terminatorBytes), calls |-> calls + 1,
               err |-> "nil"]
    ELSE LET buf == MarshalCM(Head(nss)) IN
         IF buf.err /= "nil" THEN [writes |-> out, calls |-> calls, err |-> buf.err]
         ELSE IF failAt = calls + 1
         THEN [writes |-> out, calls |-> calls + 1, err |-> "io"]
         ELSE WriteLoop(Tail(nss), Append(out, buf.data), calls + 1, failAt)

Write(p, failAt) ==
    IF failAt = 1 THEN [writes |-> <<>>, calls |-> 1, err |-> "io"]
    ELSE LET buf == MarshalHeader(p.Header) IN
         IF buf.err /= "nil"
         THEN [writes |-> <<magicNumberBytes>>, calls |-> 1, err |-> buf.err]
         ELSE IF failAt = 2
         THEN [writes |-> <<magicNumberBytes>>, calls |-> 2, err |-> "io"]
         ELSE WriteLoop(p.NamespaceMetadatas, <<magicNumberBytes, buf.data>>, 2, failAt)

----------------------------------------------------------------------------
(* preludeParserConsumer *)

HeaderBSON(p, data) ==
    LET u == Unmarshal(data, ZeroHeader, HeaderFields) IN
    [prelude |-> [p EXCEPT !.Header = <<u.val>>], err |-> u.err]

\* BodyBSON adding the record before it has looked at the decoding error.
BodyBSONAddsFirst(p, data) ==
    LET u == Unmarshal(data, ZeroCM, CMFields) IN
    [prelude |-> AddMetadata(p, u.val), err |-> u.err]

BodyBSON(p, data) ==
    LET u == Unmarshal(data, ZeroCM, CMFields) IN
    IF u.err /= "nil" THEN [prelude |-> p, err |-> u.err]
    ELSE [prelude |-> AddMetadata(p, u.val), err |-> "nil"]

End == "nil"

----------------------------------------------------------------------------
(* Parser.ReadBlock: frames one block (a header document, body documents,   *)
(* a terminator) and dispatches to the consumer.  pos counts the units      *)
(* consumed; calls is the sequence of consumer callbacks made.              *)

readBSONOrTerminator(in, pos) ==
    IF pos + 1 > Len(in)
    THEN [err |-> "EOF", pos |-> Len(in), isTerminator |-> FALSE, data |-> <<>>]
    ELSE LET size == in[pos + 1] IN
         IF size = terminatorBytes[1]
         THEN [err |-> "nil", pos |-> pos + 1, isTerminator |-> TRUE, data |-> <<>>]
         ELSE IF size < 2
         THEN [err |-> "parse", pos |-> pos + 1, isTerminator |-> FALSE, data |-> <<>>]
         ELSE IF pos + size > Len(in)
         THEN [err |-> "unexpected EOF", pos |-> Len(in), isTerminator |-> FALSE,
               data |-> <<>>]
         ELSE [err |-> "nil", pos |-> pos + size, isTerminator |-> FALSE,
               data |-> SubSeq(in, pos + 1, pos + size)]

RECURSIVE ReadBodies(_, _, _, _)
ReadBodies(in, pos, p, calls) ==
    LET b == readBSONOrTerminator(in, pos) IN
    IF b.err /= "nil"
    THEN [prelude |-> p, err |-> b.err, pos |-> b.pos, calls |-> calls]
    ELSE IF b.isTerminator
    THEN [prelude |-> p, err |-> End, pos |-> b.pos, calls |-> Append(calls, "End")]
    ELSE LET c == BodyBSON(p, b.data) IN
         IF c.err /= "nil"
         THEN [prelude |-> c.prelude, err |-> c.err, pos |-> b.pos,
               calls |-> Append(calls, "BodyBSON")]
         ELSE ReadBodies(in, b.pos, c.prelude, Append(calls, "BodyBSON"))

ReadBlock(in, pos, p) ==
    LET h == readBSONOrTerminator(in, pos) IN
    IF h.err /= "nil"
    THEN [prelude |-> p, err |-> h.err, pos |-> h.pos, calls |-> <<>>]
    ELSE IF h.isTerminator
    THEN [prelude |-> p, err |-> "parse", pos |-> h.pos, calls |-> <<>>]
    ELSE LET c == HeaderBSON(p, h.data) IN
         IF c.err /= "nil"
         THEN [prelude |-> c.prelude, err |-> c.err, pos |-> h.pos,
               calls |-> <<"HeaderBSON">>]
         ELSE ReadBodies(in, h.pos, c.prelude, <<"HeaderBSON">>)

----------------------------------------------------------------------------
(* Prelude.Read *)

\* Read resetting the by-database index before it has checked the magic number.
ReadResetFirst(p, in) ==
    LET q == IF ~p.NamespaceMetadatasByDB.isNil
             THEN [p EXCEPT !.NamespaceMetadatasByDB = MakeMap] ELSE p
    IN  IF Len(in) < 4
        THEN [prelude |-> q, err |-> IF in = <<>> THEN "EOF" ELSE "unexpected EOF",
              pos |-> Len(in), calls |-> <<>>]
        ELSE IF LittleEndianInt32(SubSeq(in, 1, 4)) /= MagicNumber
        THEN [prelude |-> q, err |-> "format", pos |-> 4, calls |-> <<>>]
        ELSE ReadBlock(in, 4, q)

Read(p, in) ==
    IF Len(in) < 4
    THEN [prelude |-> p, err |-> IF in = <<>> THEN "EOF" ELSE "unexpected EOF",
          pos |-> Len(in), calls |-> <<>>]
    ELSE IF LittleEndianInt32(SubSeq(in, 1, 4)) /= MagicNumber
    THEN [prelude |-> p, err |-> "format", pos |-> 4, calls |-> <<>>]
    ELSE ReadBlock(in, 4,
                   IF ~p.NamespaceMetadatasByDB.isNil
                   THEN [p EXCEPT !.NamespaceMetadatasByDB = MakeMap]
                   ELSE p)

----------------------------------------------------------------------------
(* MetadataPreludeFile *)

RECURSIVE OpenLoop(_, _)
OpenLoop(dbMetadatas, c) ==
    IF dbMetadatas = <<>> THEN [found |-> FALSE, text |-> <<>>]
    ELSE IF Head(dbMetadatas).Collection = c
         THEN [found |-> TRUE, text |-> Head(dbMetadatas).Metadata]
         ELSE OpenLoop(Tail(dbMetadatas), c)

\* Open without the test of line 332 for a database missing from the index.
OpenAnyDatabase(f, p) ==
    IF f.Intent.C = <<>> THEN [file |-> f, err |-> "so such file"]
    ELSE LET r == OpenLoop(p.NamespaceMetadatas, f.Intent.C) IN
         IF r.found THEN [file |-> [f EXCEPT !.Buffer = <<r.text>>], err |-> "nil"]
         ELSE [file |-> f, err |-> "so such file"]

Open(f, p) ==
    IF f.Intent.C = <<>> THEN [file |-> f, err |-> "so such file"]
    ELSE IF ~MapHas(p.NamespaceMetadatasByDB, f.Intent.DB)
    THEN [file |-> f, err |-> "so such file"]
    ELSE LET r == OpenLoop(p.NamespaceMetadatasByDB.kv[f.Intent.DB], f.Intent.C) IN
         IF r.found THEN [file |-> [f EXCEPT !.Buffer = <<r.text>>], err |-> "nil"]
         ELSE [file |-> f, err |-> "so such file"]

Close(f) == [file |-> [f EXCEPT !.Buffer = <<>>], err |-> "nil"]

----------------------------------------------------------------------------
(* The operations as steps *)

ZeroFile == [Intent |-> [DB |-> <<>>, C |-> <<>>], Buffer |-> <<>>]

\* The calls are sequential: a call starts when no result is pending, and the
\* caller takes a call's result before it makes the next call.
Idle == ret.op \in {"init", "idle"}

Return ==
    /\ ~Idle
    /\ ret' = [op |-> "idle"]
    /\ UNCHANGED <<prelude, mpf>>

Init ==
    /\ prelude = ZeroPrelude
    /\ mpf = ZeroFile
    /\ ret = [op |-> "init"]

\* NewPrelude is a constructor: it is what first happens to a Prelude.
CallNewPrelude ==
    /\ ret.op = "init"
    /\ \E n \in 0..MaxIntents : \E allIntents \in [1..n -> Intents] :
      \E maxProcs \in 1..MaxProcs :
        LET r == NewPrelude(allIntents, maxProcs) IN
        /\ prelude' = IF r.err = "nil" THEN r.prelude[1] ELSE prelude
        /\ ret' = [op |-> "NewPrelude", err |-> r.err]
        /\ UNCHANGED mpf

CallAddMetadata ==
    /\ Idle
    /\ Len(prelude.NamespaceMetadatas) < MaxRecs
    /\ \E cm \in CMs :
        /\ prelude' = AddMetadata(prelude, cm)
        /\ ret' = [op |-> "AddMetadata"]
    /\ UNCHANGED mpf

CallReadDir ==
    /\ Idle
    /\ \E pe \in Explorers :
        LET r == ReadDir(prelude, pe) IN
        /\ ret' = [op |-> "ReadDir", pe |-> pe, entries |-> r.entries, err |-> r.err]
        /\ UNCHANGED <<prelude, mpf>>

CallSize ==
    /\ Idle
    /\ \E pe \in Explorers :
        /\ ret' = [op |-> "Size", pe |-> pe, size |-> Size(prelude, pe)]
        /\ UNCHANGED <<prelude, mpf>>

NextBuild == CallNewPrelude \/ CallAddMetadata \/ CallReadDir \/ CallSize \/ Return

SpecBuild == Init /\ [][NextBuild]_vars

----------------------------------------------------------------------------
(* The streams handed to Read: what Write emits for a Prelude built by      *)
(* NewPrelude and AddMetadata, whole or cut short by a failing sink, and    *)
(* damaged copies of it.                                                    *)

WireCMs ==
    { CollectionMetadata(<<97>>, <<99>>, <<123, 125>>, 7),
      CollectionMetadata(<<>>, <<100>>, <<>>, 0) }

RECURSIVE AddAll(_, _)
AddAll(p, recs) ==
    IF recs = <<>> THEN p ELSE AddAll(AddMetadata(p, Head(recs)), Tail(recs))

WireLists == UNION {[1..n -> WireCMs] : n \in 0..MaxRecs}

WirePreludes ==
    {AddAll(NewPrelude(<<>>, MaxProcs).prelude[1], recs) : recs \in WireLists}

\* What a sink that never fails holds after Write(p).
WireOf(p) == Flatten(Write(p, 0).writes)

\* The first byte of the magic number changed.
BadMagic(units) ==
    [units EXCEPT ![1] = [units[1] EXCEPT ![1] = (units[1][1] + 1) % 256]]

\* Document i with its closing 0 overwritten: nothing of it decodes.
BadEnd(units, i) ==
    [units EXCEPT ![i] = [units[i] EXCEPT ![Len(units[i])] = 1]]

\* Document i with the type tag of its second element overwritten: its first
\* field decodes, then the decoding fails.
BadSecondElem(units, i) ==
    [units EXCEPT ![i] = [units[i] EXCEPT ![5 + units[i][4]] = 99]]

\* The streams in which block k of p's stream does not decode (k = 0: the
\* header block), each with the Prelude and the block it comes from.
DamagedOf(p) ==
    LET whole == Write(p, 0).writes IN
    {[p |-> p, k |-> k, in |-> Flatten(BadEnd(whole, k + 2))] :
        k \in 0..Len(p.NamespaceMetadatas)}
    \cup {[p |-> p, k |-> 0, in |-> Flatten(BadSecondElem(whole, 2))]}

Damaged == UNION {DamagedOf(p) : p \in WirePreludes}

\* The streams of complete writes, each with the Prelude it comes from.
Written == {[p |-> p, in |-> WireOf(p)] : p \in WirePreludes}

StreamsOf(p) ==
    {Flatten(Write(p, failAt).writes) : failAt \in 0..(Len(p.NamespaceMetadatas) + 2)}
    \cup {Flatten(BadMagic(Write(p, 0).writes)), SubSeq(magicNumberBytes, 1, 2)}
    \cup {d.in : d \in DamagedOf(p)}

InputStreams == UNION {StreamsOf(p) : p \in WirePreludes}

FileIntents == [DB : DBNames, C : CollNames]

CallWrite ==
    /\ Idle
    /\ \E failAt \in 0..(Len(prelude.NamespaceMetadatas) + 3) :
        LET r == Write(prelude, failAt) IN
        /\ ret' = [op |-> "Write", failAt |-> failAt, writes |-> r.writes,
                   calls |-> r.calls, err |-> r.err]
        /\ UNCHANGED <<prelude, mpf>>

CallRead ==
    /\ Idle
    /\ \E in \in InputStreams :
        LET r == Read(prelude, in) IN
        /\ Len(r.prelude.NamespaceMetadatas) <= MaxRecs
        /\ prelude' = r.prelude
        /\ ret' = [op |-> "Read", in |-> in, err |-> r.err, pos |-> r.pos,
                   calls |-> r.calls]
        /\ UNCHANGED mpf

\* The caller points the accessor's intent at a namespace.
SetIntent ==
    /\ Idle
    /\ \E intent \in FileIntents :
        /\ mpf' = [mpf EXCEPT !.Intent = intent]
        /\ ret' = [op |-> "SetIntent"]
        /\ UNCHANGED prelude

CallOpen ==
    LET r == Open(mpf, prelude) IN
    /\ Idle
    /\ mpf' = r.file
    /\ ret' = [op |-> "Open", err |-> r.err]
    /\ UNCHANGED prelude

CallClose ==
    LET r == Close(mpf) IN
    /\ Idle
    /\ mpf' = r.file
    /\ ret' = [op |-> "Close", err |-> r.err]
    /\ UNCHANGED prelude

NextIO == CallNewPrelude \/ CallAddMetadata \/ CallWrite \/ CallRead \/ Return

SpecIO == Init /\ [][NextIO]_vars

NextFile ==
    CallNewPrelude \/ CallAddMetadata \/ SetIntent \/ CallOpen \/ CallClose \/ Return

SpecFile == Init /\ [][NextFile]_vars

Next ==
    \/ CallNewPrelude \/ CallAddMetadata \/ CallReadDir \/ CallSize
    \/ CallWrite \/ CallRead \/ SetIntent \/ CallOpen \/ CallClose \/ Return

Spec == Init /\ [][Next]_vars

----------------------------------------------------------------------------
(* Vocabulary of the properties *)

\* The records of database db, in the order of the ordered sequence.
RecordsOf(flat, db) ==
    LET InDB(r) == r.Database = db IN SelectSeq(flat, InDB)

DatabasesOf(flat) == {flat[i].Database : i \in 1..Len(flat)}

\* The position at which database db is first seen in the ordered sequence.
FirstSeen(flat, db) ==
    CHOOSE i \in 1..Len(flat) :
        /\ flat[i].Database = db
        /\ \A j \in 1..(i - 1) : flat[j].Database /= db

\* dbs lists each database of flat once, in order of first appearance.
IsFirstSeenOrder(dbs, flat) ==
    /\ {dbs[i] : i \in 1..Len(dbs)} = DatabasesOf(flat)
    /\ \A i, j \in 1..Len(dbs) :
          i < j => dbs[i] /= dbs[j] /\ FirstSeen(flat, dbs[i]) < FirstSeen(flat, dbs[j])

HasMetadata(r) == r.Metadata /= <<>>

\* Where the data entry of the i-th record stands in a listing.
EntryPos(recs, i) == i + Cardinality({j \in 1..(i - 1) : HasMetadata(recs[j])})

\* es lists recs under database db: per record, in order, a data entry, and a
\* metadata entry right after it iff the record's metadata text is not empty.
IsListingOf(es, recs, db) ==
    /\ Len(es) = Len(recs) + Cardinality({j \in 1..Len(recs) : HasMetadata(recs[j])})
    /\ \A i \in 1..Len(recs) :
          /\ es[EntryPos(recs, i)] = PreludeExplorer(db, recs[i].Collection, FALSE)
          /\ HasMetadata(recs[i]) =>
                es[EntryPos(recs, i) + 1] = PreludeExplorer(db, recs[i].Collection, TRUE)

\* The Size of the first record matching the entry's database and collection,
\* 0 when none matches.
FirstMatchSize(flat, pe) ==
    LET Matches == {i \in 1..Len(flat) :
                      flat[i].Database = pe.database /\ flat[i].Collection = pe.collection}
    IN  IF Matches = {} THEN 0
        ELSE flat[CHOOSE i \in Matches : \A j \in Matches : i <= j].Size

----------------------------------------------------------------------------
(* C2: after any sequence of AddMetadata calls on a Prelude that started      *)
(* empty, each database's group is exactly the records of that database in   *)
(* the order of the ordered sequence (so every grouped record stands once in *)
(* the ordered sequence, in the same relative order), and DBS lists each     *)
(* database that has a record exactly once, in order of first appearance.    *)
DualViewConsistency ==
    LET flat == prelude.NamespaceMetadatas
        byDB == prelude.NamespaceMetadatasByDB
    IN  /\ DOMAIN byDB.kv = DatabasesOf(flat)
        /\ \A db \in DOMAIN byDB.kv : byDB.kv[db] = RecordsOf(flat, db)
        /\ IsFirstSeenOrder(prelude.DBS, flat)

DualViewWitness ==
    /\ ret.op = "AddMetadata"
    /\ Len(prelude.NamespaceMetadatas) = 2
    /\ prelude.NamespaceMetadatas[1].Database = prelude.NamespaceMetadatas[2].Database
    /\ prelude.NamespaceMetadatas[1] /= prelude.NamespaceMetadatas[2]

(* C6: for a Prelude built by AddMetadata, ReadDir on the root lists first   *)
(* the records stored under the empty database (a data entry each, then a    *)
(* metadata entry iff the metadata text is not empty) and then one directory *)
(* entry per distinct database in first-seen order; ReadDir on a database    *)
(* lists that database's records the same way and nothing else.              *)
TreeSynthesis ==
    ret.op = "ReadDir" =>
        LET flat == prelude.NamespaceMetadatas
            es == ret.entries
            top == RecordsOf(flat, <<>>)
            k == Len(es) - Cardinality(DatabasesOf(flat))
        IN  /\ (ret.err = "not a directory") = (ret.pe.collection /= <<>>)
            /\ (ret.err = "no such directory") =
                  (/\ ret.pe.collection = <<>>
                   /\ ret.pe.database /= <<>>
                   /\ ret.pe.database \notin DatabasesOf(flat))
            /\ ret.err = "nil" /\ ret.pe.database = <<>> =>
                  /\ k >= 0
                  /\ IsListingOf(SubSeq(es, 1, k), top, <<>>)
                  /\ IsFirstSeenOrder([i \in 1..(Len(es) - k) |-> es[k + i].database], flat)
                  /\ \A i \in (k + 1)..Len(es) :
                        es[i].collection = <<>> /\ ~es[i].isMetadata
            /\ ret.err = "nil" /\ ret.pe.database /= <<>> =>
                  IsListingOf(es, RecordsOf(flat, ret.pe.database), ret.pe.database)

TreeSynthesisWitness ==
    /\ ret.op = "ReadDir"
    /\ ret.pe = NewPreludeExplorer
    /\ Len(ret.entries) = 4
    /\ ret.entries[2].isMetadata
    /\ ret.entries[4].database = <<98>>

(* C7, as stated: the Size of a directory-like entry is 0, that of a data    *)
(* entry is the Size of the first matching record (0 if none), and that of   *)
(* every metadata entry is 0 whatever the matching record holds.             *)
SizeMetadataEntryIsZero ==
    ret.op = "Size" =>
        ret.size = IF ret.pe.collection = <<>> \/ ret.pe.isMetadata
                   THEN 0
                   ELSE FirstMatchSize(prelude.NamespaceMetadatas, ret.pe)

(* C7, amended: the Size of a directory-like entry is 0; that of any other   *)
(* entry, data or metadata alike, is the Size of the first record in the     *)
(* ordered sequence whose database and collection match (0 if none).         *)
SizeIsFirstMatch ==
    ret.op = "Size" =>
        ret.size = IF ret.pe.collection = <<>>
                   THEN 0
                   ELSE FirstMatchSize(prelude.NamespaceMetadatas, ret.pe)

SizeWitness ==
    /\ ret.op = "Size"
    /\ ret.pe.isMetadata
    /\ ret.size = 7
    /\ Len(prelude.NamespaceMetadatas) = 2
    /\ prelude.NamespaceMetadatas[2].Size = 3
    /\ prelude.NamespaceMetadatas[2].Collection = ret.pe.collection
    /\ prelude.NamespaceMetadatas[2].Database = ret.pe.database

(* C10: no entry that ReadDir returns for a directory entry d has d's own    *)
(* (database, collection, isMetadata) key, so a walk from the root ends.     *)
TreeWellFounded ==
    ret.op = "ReadDir" /\ ret.err = "nil" =>
        \A i \in 1..Len(ret.entries) : ret.entries[i] /= ret.pe

(* C1: for every Prelude P built by NewPrelude/AddMetadata from a non-empty  *)
(* list of records, Read of what Write(P) emitted, on a fresh Prelude,       *)
(* succeeds and leaves it with P's header fields, ordered sequence, DBS and  *)
(* by-database grouping.                                                     *)
RoundTrip ==
    [][ret'.op = "Read" /\ prelude = ZeroPrelude =>
         \A w \in Written :
            w.p.NamespaceMetadatas /= <<>> /\ ret'.in = w.in =>
                /\ ret'.err = "nil"
                /\ prelude'.Header = w.p.Header
                /\ prelude'.NamespaceMetadatas = w.p.NamespaceMetadatas
                /\ prelude'.DBS = w.p.DBS
                /\ prelude'.NamespaceMetadatasByDB = w.p.NamespaceMetadatasByDB]_vars

RoundTripWitness ==
    /\ ret.op = "Read"
    /\ ret.err = "nil"
    /\ Len(prelude.NamespaceMetadatas) = 2
    /\ Len(prelude.DBS) = 2
    /\ prelude.NamespaceMetadatas[1].Size = 7
    /\ [p |-> prelude, in |-> ret.in] \in Written

(* C3: in every state reached by NewPrelude, AddMetadata and Read calls on   *)
(* one Prelude, the by-database grouping and the flat ordered list hold the  *)
(* same records: every grouped record is in the flat list and every record   *)
(* of the flat list is in the group of its database.                         *)
SameRecordsInBothViews ==
    LET flat == prelude.NamespaceMetadatas
        kv == prelude.NamespaceMetadatasByDB.kv
    IN  /\ \A db \in DOMAIN kv : \A i \in 1..Len(kv[db]) :
              \E j \in 1..Len(flat) : flat[j] = kv[db][i]
        /\ \A j \in 1..Len(flat) :
              /\ flat[j].Database \in DOMAIN kv
              /\ \E i \in 1..Len(kv[flat[j].Database]) : kv[flat[j].Database][i] = flat[j]

(* C4: Read of a stream whose first 4 bytes are not the magic number's       *)
(* little-endian bytes returns the format-mismatch error, makes no parser    *)
(* callback, consumes no byte beyond the first 4 and leaves the Prelude as   *)
(* it was.                                                                   *)
MagicRejection ==
    [][(/\ ret'.op = "Read"
        /\ Len(ret'.in) >= 4
        /\ SubSeq(ret'.in, 1, 4) /= <<129, 153, 226, 109>>)
       => /\ ret'.err = "format"
          /\ ret'.calls = <<>>
          /\ ret'.pos = 4
          /\ prelude' = prelude]_vars

MagicRejectionWitness ==
    /\ ret.op = "Read"
    /\ ret.err = "format"
    /\ Len(ret.in) > 4
    /\ prelude.NamespaceMetadatas /= <<>>
    /\ DOMAIN prelude.NamespaceMetadatasByDB.kv /= {}

\* The units Write hands to the sink when nothing fails.
ExpectedUnit(p, i) ==
    IF i = 1 THEN <<129, 153, 226, 109>>
    ELSE IF i = 2 THEN MarshalHeader(p.Header).data
    ELSE IF i <= Len(p.NamespaceMetadatas) + 2
    THEN MarshalCM(p.NamespaceMetadatas[i - 2]).data
    ELSE <<-1>>

WriteResult ==
    ret.op = "Write" /\ prelude.Header /= <<>> =>
        LET n == Len(prelude.NamespaceMetadatas) + 3 IN
        /\ Len(ret.writes) <= n
        /\ \A i \in 1..Len(ret.writes) : ret.writes[i] = ExpectedUnit(prelude, i)
        /\ ret.failAt = 0 =>
              ret.err = "nil" /\ Len(ret.writes) = n /\ ret.calls = n
        /\ ret.failAt \in 1..n =>
              /\ ret.err = "io"
              /\ ret.calls = ret.failAt
              /\ Len(ret.writes) = ret.failAt - 1

(* C5: Write emits the magic number's 4 bytes, the serialized Header, one    *)
(* document per record in the order of the ordered sequence, then the        *)
(* terminator; a failed write is returned at once and no later write is      *)
(* issued; Write does not change the Prelude.                                *)
WriteOrder ==
    /\ []WriteResult
    /\ [][ret'.op = "Write" => prelude' = prelude]_vars

WriteOrderWitness ==
    /\ ret.op = "Write"
    /\ prelude.Header /= <<>>
    /\ Len(prelude.NamespaceMetadatas) = 2
    /\ ret.failAt = 3
    /\ ret.err = "io"
    /\ Len(ret.writes) = 2

(* C8: Open succeeds iff the intent's collection is not empty, its database  *)
(* is a key of the by-database grouping and a record of that database has    *)
(* the collection; then the buffer holds the metadata text of the first such *)
(* record; otherwise Open returns the no-such-file error and the buffer is   *)
(* as it was.                                                                *)
OpenResult ==
    [][ret'.op = "Open" =>
         LET kv == prelude.NamespaceMetadatasByDB.kv
             db == mpf.Intent.DB
             c == mpf.Intent.C
             Hits == IF db \in DOMAIN kv
                     THEN {i \in 1..Len(kv[db]) : kv[db][i].Collection = c}
                     ELSE {}
             ok == c /= <<>> /\ Hits /= {}
         IN  /\ (ret'.err = "nil") = ok
             /\ ok => mpf'.Buffer =
                        <<kv[db][CHOOSE i \in Hits : \A j \in Hits : i <= j].Metadata>>
             /\ ~ok => ret'.err = "so such file" /\ mpf'.Buffer = mpf.Buffer
             /\ mpf'.Intent = mpf.Intent]_vars

OpenResultWitness ==
    /\ ret.op = "Open"
    /\ ret.err = "so such file"
    /\ mpf.Buffer = <<<<123, 125>>>>
    /\ mpf.Intent.C /= <<>>
    /\ prelude.NamespaceMetadatas /= <<>>

(* C9, as stated: when the magic number matches and the decoding of the      *)
(* header block or of a metadata block fails, Read returns the error and the *)
(* Prelude holds nothing taken from the stream.                              *)
NoPartialStateOnDecodeError ==
    [][ret'.op = "Read" /\ ret'.err = "corrupted" => prelude' = prelude]_vars

\* The callbacks made when metadata block k is the one that fails to decode
\* (k = 0: the header block).
CallsUpTo(k) == <<"HeaderBSON">> \o [i \in 1..k |-> "BodyBSON"]

\* Each field of header h is zero or the field of header g.
FilledFrom(h, g) ==
    /\ h.ArchiveFormatVersion \in {<<>>, g.ArchiveFormatVersion}
    /\ h.ConcurrentCollections \in {0, g.ConcurrentCollections}

(* C9, amended: when the magic number matches and the decoding of the header *)
(* block or of the k-th metadata block fails, Read returns that error and    *)
(* the failing block adds no record, but what was decoded before it stays:   *)
(* the Header is replaced (by the stream's header, or when the header block  *)
(* failed by a new Header holding what was decoded of it) and the records of *)
(* blocks 1..k-1 are appended to the ordered sequence.                       *)
DecodeErrorKeepsEarlierBlocks ==
    [][ret'.op = "Read" /\ ret'.err = "corrupted" =>
         \E d \in Damaged :
            /\ ret'.in = d.in
            /\ ret'.calls = CallsUpTo(d.k)
            /\ prelude'.NamespaceMetadatas =
                  prelude.NamespaceMetadatas
                  \o SubSeq(d.p.NamespaceMetadatas, 1, d.k - 1)
            /\ prelude'.Header /= <<>>
            /\ IF d.k = 0 THEN FilledFrom(prelude'.Header[1], d.p.Header[1])
               ELSE prelude'.Header = d.p.Header
            /\ \A db \in DOMAIN prelude'.NamespaceMetadatasByDB.kv :
                 \A i \in 1..Len(prelude'.NamespaceMetadatasByDB.kv[db]) :
                   \E j \in 1..Len(prelude'.NamespaceMetadatas) :
                     prelude'.NamespaceMetadatas[j] =
                        prelude'.NamespaceMetadatasByDB.kv[db][i]]_vars

DecodeErrorWitness ==
    /\ ret.op = "Read"
    /\ ret.err = "corrupted"
    /\ ret.calls = <<"HeaderBSON", "BodyBSON", "BodyBSON">>
    /\ Len(prelude.NamespaceMetadatas) = 1
    /\ prelude.Header /= <<>>

====
